---- MODULE Spec2Model ----
(***************************************************************************)
(* PaymentsRifas: a payment-gated allocation of numbered raffle tickets.   *)
(*                                                                         *)
(* The repository holds two revisions of the server, src/main.go and       *)
(* src/unnamed/part_000.  Both register the same two handlers,             *)
(* CreatePaymentIntent and HandleStripeWebhook; they differ in the         *)
(* availability check (only main.go calls validarNumeros) and in the       *)
(* answer given when registrarTickets fails (part_000 writes 500, main.go  *)
(* returns without writing a status).  The variable `build` says which     *)
(* revision is running.                                                    *)
(*                                                                         *)
(* The collaborators are modelled by what the handlers see of them:        *)
(*   - the store (Supabase/PostgREST): the table `tikect`, a multiset of   *)
(*     rows, every call either answered or failing;                        *)
(*   - the payment provider (Stripe): the intents it accepted, and the     *)
(*     signed events it posts about them;                                  *)
(*   - the mail provider (Resend): a send that succeeds, fails or hangs.   *)
(***************************************************************************)
EXTENDS Integers, Sequences, FiniteSets, TLC

VARIABLES build, tikect, ci, wh

vars == <<build, tikect, ci, wh>>

(* ------------------------------ bounds -------------------------------- *)

MaxDeliveries == 2
MaxNumber == 2
MaxLen == 3

(* ------------------------- program constants -------------------------- *)

MaxBodyBytes == 65536

StatusOK == 200
StatusBadRequest == 400
StatusNotFound == 404
StatusConflict == 409
StatusInternalServerError == 500

(* No status line was written: the handler panicked and net/http closed    *)
(* the connection.                                                         *)
NoResponse == 0

Builds == {"main.go", "part_000"}
Requests == {1, 2}
Deliveries == 1..MaxDeliveries
Numbers == 1..MaxNumber
Users == {"u1", "u2"}

(* ------------------------------ catalog ------------------------------- *)

NoRifa == [id |-> "", price |-> 0, title |-> ""]

RifaTable ==
    {[id |-> "R1", price |-> 500, title |-> "Spring Raffle"]}

RifaIds == {x.id : x \in RifaTable}

EmailOf(u) == IF u = "u1" THEN "u1@x.com" ELSE "u2@x.com"

(* ------------------- allocation descriptor encoding -------------------- *)

DigitChar == <<"0", "1", "2", "3", "4", "5", "6", "7", "8", "9">>

IsDigit(c) == \E i \in 1..10 : DigitChar[i] = c

DigitVal(c) == (CHOOSE i \in 1..10 : DigitChar[i] = c) - 1

RECURSIVE Itoa(_)
Itoa(n) ==
    IF n < 10 THEN <<DigitChar[n + 1]>>
    ELSE Itoa(n \div 10) \o <<DigitChar[(n % 10) + 1]>>

RECURSIVE JoinNums(_)
JoinNums(v) ==
    IF v = <<>> THEN <<>>
    ELSE IF Len(v) = 1 THEN Itoa(v[1])
    ELSE Itoa(v[1]) \o <<",">> \o JoinNums(Tail(v))

RECURSIVE JoinSpaces(_)
JoinSpaces(v) ==
    IF v = <<>> THEN <<>>
    ELSE IF Len(v) = 1 THEN Itoa(v[1])
    ELSE Itoa(v[1]) \o <<" ">> \o JoinSpaces(Tail(v))

(* fmt.Sprint of a []int: the elements separated by spaces.                *)
Sprint(v) == <<"[">> \o JoinSpaces(v) \o <<"]">>

(* The numbers field written with fmt.Sprint instead of json.Marshal.      *)
toStringSprint(v) == Sprint(v)

(* json.Marshal of a []int, as the text it produces, one character per     *)
(* element.                                                                *)
toString(v) == <<"[">> \o JoinNums(v) \o <<"]">>

RECURSIVE ScanInts(_, _, _, _)
ScanInts(s, acc, cur, inNum) ==
    IF s = <<>> THEN (IF inNum THEN Append(acc, cur) ELSE <<>>)
    ELSE IF IsDigit(Head(s))
         THEN ScanInts(Tail(s), acc, (cur * 10) + DigitVal(Head(s)), TRUE)
    ELSE IF Head(s) = "," /\ inNum
         THEN ScanInts(Tail(s), Append(acc, cur), 0, FALSE)
    ELSE <<>>

(* json.Unmarshal into a []int whose error is dropped: text that is not an *)
(* array of integers leaves the slice empty.                               *)
UnmarshalNumeros(s) ==
    IF Len(s) < 2 \/ s[1] # "[" \/ s[Len(s)] # "]" THEN <<>>
    ELSE IF Len(s) = 2 THEN <<>>
    ELSE ScanInts(SubSeq(s, 2, Len(s) - 1), <<>>, 0, FALSE)

(* strings.Fields: the maximal runs of non-space characters.               *)
RECURSIVE Fields(_, _, _)
Fields(s, acc, cur) ==
    IF s = <<>> THEN (IF cur = <<>> THEN acc ELSE Append(acc, cur))
    ELSE IF Head(s) = " "
         THEN Fields(Tail(s), IF cur = <<>> THEN acc ELSE Append(acc, cur), <<>>)
    ELSE Fields(Tail(s), acc, Append(cur, Head(s)))

(* strings.Join                                                            *)
RECURSIVE Join(_, _)
Join(elems, sep) ==
    IF elems = <<>> THEN <<>>
    ELSE IF Len(elems) = 1 THEN elems[1]
    ELSE elems[1] \o sep \o Join(Tail(elems), sep)

RECURSIVE TrimLeft(_, _)
TrimLeft(s, cutset) ==
    IF s # <<>> /\ Head(s) \in cutset THEN TrimLeft(Tail(s), cutset) ELSE s

RECURSIVE TrimRight(_, _)
TrimRight(s, cutset) ==
    IF s # <<>> /\ s[Len(s)] \in cutset
    THEN TrimRight(SubSeq(s, 1, Len(s) - 1), cutset) ELSE s

(* strings.Trim                                                            *)
Trim(s, cutset) == TrimRight(TrimLeft(s, cutset), cutset)

(* The numbers as the confirmation mail lists them: "4, 9".                *)
numsStr(numeros) ==
    Trim(Join(Fields(Sprint(numeros), <<>>, <<>>), <<",", " ">>), {"[", "]"})

NoMeta ==
    [rifa_id |-> "", rifa_title |-> "", user_id |-> "", user_email |-> "",
     numeros |-> <<>>]

Metadata(req, rifa) ==
    [rifa_id |-> req.rifaId, rifa_title |-> rifa.title, user_id |-> req.userId,
     user_email |-> req.email, numeros |-> toString(req.numeros)]

(* The amount without the conversion to cents.                             *)
montoTotalNoCents(rifa, numeros) == rifa.price * Len(numeros)

montoTotal(rifa, numeros) == (rifa.price * Len(numeros)) * 100

(* ------------------------------- store --------------------------------- *)

Rows == [rifa_id : RifaIds, number : Numbers, profile_id : Users]

StoreOutcomes == {"ok", "neterr", "5xx"}

Taken(table, rifaId, n) ==
    \E row \in Rows : row.rifa_id = rifaId /\ row.number = n /\ table[row] > 0

Copies(rows, row) == Cardinality({i \in 1..Len(rows) : rows[i] = row})

KeyClash(table, rows, i) ==
    \/ Taken(table, rows[i].rifa_id, rows[i].number)
    \/ \E j \in 1..(i - 1) :
          rows[j].rifa_id = rows[i].rifa_id /\ rows[j].number = rows[i].number

(* A store without the uniqueness constraint: every batch is inserted.     *)
StoreInsertUnconstrained(table, rows, outcome) ==
    IF outcome = "neterr"
    THEN [reached |-> FALSE, status |-> 0, key |-> 0, table |-> table]
    ELSE IF outcome = "5xx"
    THEN [reached |-> TRUE, status |-> 503, key |-> 0, table |-> table]
    ELSE [reached |-> TRUE, status |-> 201, key |-> 0,
          table |-> [row \in Rows |-> table[row] + Copies(rows, row)]]

(* POST /rest/v1/tikect with an array body: one INSERT statement.  The     *)
(* table carries a uniqueness constraint on (rifa_id, number); a row that  *)
(* violates it rejects the whole statement with 409 and names the key.     *)
StoreInsert(table, rows, outcome) ==
    IF outcome = "neterr"
    THEN [reached |-> FALSE, status |-> 0, key |-> 0, table |-> table]
    ELSE IF outcome = "5xx"
    THEN [reached |-> TRUE, status |-> 503, key |-> 0, table |-> table]
    ELSE IF \E i \in 1..Len(rows) : KeyClash(table, rows, i)
    THEN LET i == CHOOSE k \in 1..Len(rows) :
                      /\ KeyClash(table, rows, k)
                      /\ \A j \in 1..(k - 1) : ~KeyClash(table, rows, j)
         IN  [reached |-> TRUE, status |-> 409, key |-> rows[i].number,
              table |-> table]
    ELSE [reached |-> TRUE, status |-> 201, key |-> 0,
          table |-> [row \in Rows |-> table[row] + Copies(rows, row)]]

(* GET /rest/v1/tikect?rifa_id=eq.X&number=in.(...): the matching rows,    *)
(* or an error object with a status >= 400, or no response at all.         *)
StoreSelect(table, rifaId, numeros, outcome) ==
    IF outcome = "neterr" THEN [reached |-> FALSE, isArray |-> FALSE, n |-> 0]
    ELSE IF outcome = "5xx" THEN [reached |-> TRUE, isArray |-> FALSE, n |-> 0]
    ELSE [reached |-> TRUE, isArray |-> TRUE,
          n |-> Cardinality({i \in 1..Len(numeros) :
                                numeros[i] \in Numbers
                                /\ Taken(table, rifaId, numeros[i])})]

(* ---------------------------- create-intent ---------------------------- *)

NumLists == UNION {[1..k -> Numbers] : k \in 0..MaxLen}

(* The lists the protocol runs draw from: a single number, a pair that     *)
(* overlaps it, and a repeated number.                                     *)
ScenarioLists == {<<2>>, <<1, 2>>, <<1, 1>>}

NoReq == [json |-> "none", rifaId |-> "", numeros |-> <<>>, userId |-> "",
          email |-> ""]

InvalidReq == [NoReq EXCEPT !.json = "invalid"]

ValidReqs(ids, lists) ==
    {[json |-> "valid", rifaId |-> id, numeros |-> ns, userId |-> u,
      email |-> EmailOf(u)] : id \in ids, ns \in lists, u \in Users}

ReqInputs == {InvalidReq} \cup ValidReqs(RifaIds \cup {"R9"}, NumLists)

ScenarioReqs == ValidReqs(RifaIds, ScenarioLists)

NoIntent == [amount |-> 0, metadata |-> NoMeta]

(* store: how the store answered getRifa and validarNumeros in this       *)
(* request, "none" for a call that was not made.                           *)
NoCalls == [rifa |-> "none", check |-> "none"]

IdleRequest == [pc |-> "idle", req |-> NoReq, status |-> NoResponse,
                intent |-> NoIntent, takenAtCheck |-> FALSE,
                store |-> NoCalls]

(* getRifa: the catalog row, or NoRifa when the call failed, the status    *)
(* was not 200 or no row matched.                                          *)
getRifa(id, outcome) ==
    IF outcome # "ok" THEN NoRifa
    ELSE IF \E x \in RifaTable : x.id = id
    THEN CHOOSE x \in RifaTable : x.id = id
    ELSE NoRifa

(* validarNumeros: "nil", "error" (some number is taken) or "panic": with  *)
(* no response resp is nil and resp.Body is dereferenced; an error object  *)
(* does not decode into the slice, which stays empty.                      *)
validarNumeros(table, rifaID, numeros, outcome) ==
    LET resp == StoreSelect(table, rifaID, numeros, outcome)
        count == IF resp.isArray THEN resp.n ELSE 0
    IN  IF ~resp.reached THEN "panic"
        ELSE IF count > 0 THEN "error"
        ELSE "nil"

(* Whether this revision of CreatePaymentIntent calls validarNumeros.      *)
ChecksAvailability(b) == b = "main.go"

(* paymentintent.New: the provider refuses an amount that is not positive, *)
(* and may fail for reasons of its own.                                    *)
ProviderAccepts(amount, up) == up /\ amount > 0

AnyTaken(table, rifaId, numeros) ==
    \E i \in 1..Len(numeros) : Taken(table, rifaId, numeros[i])

(* CreatePaymentIntent up to the call of the provider.                     *)
CreatePaymentIntentCheck(r, inputs, outcomes) ==
    /\ ci[r].pc = "idle"
    /\ r > 1 => ci[r - 1].pc # "idle"
    /\ \E req \in inputs, o1 \in outcomes, o2 \in outcomes :
          LET rifa == getRifa(req.rifaId, o1)
              avail == IF ChecksAvailability(build)
                       THEN validarNumeros(tikect, req.rifaId, req.numeros, o2)
                       ELSE "nil"
              params == [amount |-> montoTotal(rifa, req.numeros),
                         metadata |-> Metadata(req, rifa)]
              taken == AnyTaken(tikect, req.rifaId, req.numeros)
              calls == [rifa |-> IF req.json = "valid" THEN o1 ELSE "none",
                        check |-> IF req.json = "valid" /\ rifa # NoRifa
                                     /\ ChecksAvailability(build)
                                  THEN o2 ELSE "none"]
              done(st) == [pc |-> "done", req |-> req, status |-> st,
                           intent |-> NoIntent, takenAtCheck |-> taken,
                           store |-> calls]
          IN  ci' = [ci EXCEPT ![r] =
                  IF req.json # "valid" THEN done(StatusBadRequest)
                  ELSE IF rifa = NoRifa THEN done(StatusNotFound)
                  ELSE IF avail = "panic" THEN done(NoResponse)
                  ELSE IF avail = "error" THEN done(StatusConflict)
                  ELSE [pc |-> "issuing", req |-> req, status |-> NoResponse,
                        intent |-> params, takenAtCheck |-> taken,
                        store |-> calls]]
    /\ UNCHANGED <<build, tikect, wh>>

(* paymentintent.New and the response.                                     *)
CreatePaymentIntentIssue(r, ups) ==
    /\ ci[r].pc = "issuing"
    /\ \E up \in ups :
          ci' = [ci EXCEPT ![r] =
                  IF ProviderAccepts(ci[r].intent.amount, up)
                  THEN [@ EXCEPT !.pc = "done", !.status = StatusOK]
                  ELSE [@ EXCEPT !.pc = "done",
                                 !.status = StatusInternalServerError,
                                 !.intent = NoIntent]]
    /\ UNCHANGED <<build, tikect, wh>>

(* The requests whose payment intent the provider holds.                   *)
Issued == {r \in Requests : ci[r].pc = "done" /\ ci[r].status = StatusOK}

(* ------------------------------- webhook ------------------------------- *)

WebhookSecret == "whsec_live"
AttackerSecret == "whsec_guess"

Succeeded == "payment_intent.succeeded"
EventTypes == {Succeeded, "payment_intent.payment_failed"}

BodyLens == {MaxBodyBytes, MaxBodyBytes + 1}

NoPayload == [id |-> 0, type |-> "", metadata |-> NoMeta, len |-> 0]

(* The signature scheme, as an injective function of the secret and the    *)
(* signed bytes.                                                           *)
Sign(secret, payload) == [secret |-> secret, payload |-> payload]

NoSignature == [kind |-> "none", mac |-> Sign("", NoPayload)]

OtherUser(u) == IF u = "u1" THEN "u2" ELSE "u1"

(* A body altered after signing: the tickets are redirected to another     *)
(* buyer.                                                                  *)
Tamper(p) ==
    [p EXCEPT !.metadata.user_id = OtherUser(@),
              !.metadata.user_email = EmailOf(OtherUser(p.metadata.user_id))]

(* The events the provider can issue: about an intent it holds.            *)
ProviderEvents(lens) ==
    {[id |-> r, type |-> t, metadata |-> ci[r].intent.metadata, len |-> n] :
        r \in Issued, t \in EventTypes, n \in lens}

Shapes == {"genuine", "mutated", "wrongsecret", "malformed"}

BodyOf(g, shape) == IF shape = "genuine" THEN g ELSE Tamper(g)

HeaderOf(g, shape) ==
    IF shape = "malformed" THEN [kind |-> "malformed", mac |-> Sign("", NoPayload)]
    ELSE IF shape = "wrongsecret"
    THEN [kind |-> "v1", mac |-> Sign(AttackerSecret, Tamper(g))]
    ELSE [kind |-> "v1", mac |-> Sign(WebhookSecret, g)]

NoErr == [msg |-> "", status |-> 0, key |-> 0]

NoNotif == [state |-> "none", to |-> "", title |-> "", numeros |-> <<>>,
            numsStr |-> <<>>]

IdleDelivery ==
    [pc |-> "idle", payload |-> NoPayload, signature |-> NoSignature,
     status |-> NoResponse, verifyTried |-> FALSE, verified |-> FALSE,
     commit |-> "none", err |-> NoErr, notif |-> NoNotif]

(* A request reaches /payments/webhook.                                    *)
WebhookArrives(d, shapes, lens) ==
    /\ wh[d].pc \in {"idle", "done"}
    /\ wh[d].notif.state # "pending"
    /\ d > 1 => wh[d - 1].pc # "idle"
    /\ \E g \in ProviderEvents(lens), shape \in shapes :
          wh' = [wh EXCEPT ![d] =
                  [IdleDelivery EXCEPT !.pc = "received",
                                       !.payload = BodyOf(g, shape),
                                       !.signature = HeaderOf(g, shape)]]
    /\ UNCHANGED <<build, tikect, ci>>

(* A cap that lets one byte too many through.                              *)
BodyTooLargeOffByOne(len) == len > MaxBodyBytes + 1

(* io.ReadAll over http.MaxBytesReader fails when the body is longer than  *)
(* the cap.                                                                *)
BodyTooLarge(len) == len > MaxBodyBytes

(* A verification that parses the header and never compares the           *)
(* signature.                                                              *)
ConstructEventHeaderOnly(payload, signature, secret) ==
    signature.kind = "v1"

(* webhook.ConstructEvent: the header is well formed and carries the       *)
(* signature of exactly these bytes under the endpoint's secret.           *)
ConstructEvent(payload, signature, secret) ==
    /\ signature.kind = "v1"
    /\ signature.mac = Sign(secret, payload)

(* A handler that commits on every event of the provider.                  *)
IsSucceededAnyEvent(type) == type \in EventTypes

(* event.Type == "payment_intent.succeeded"                                *)
IsSucceeded(type) == type = Succeeded

(* Rows bound to another buyer than the descriptor's.                      *)
TicketRowsOtherBuyer(rifaID, numeros, userID) ==
    [i \in 1..Len(numeros) |->
        [rifa_id |-> rifaID, number |-> numeros[i],
         profile_id |-> OtherUser(userID)]]

TicketRows(rifaID, numeros, userID) ==
    [i \in 1..Len(numeros) |->
        [rifa_id |-> rifaID, number |-> numeros[i], profile_id |-> userID]]

(* A registrarTickets that checks the transport error and never the status *)
(* of the store's answer.                                                  *)
registrarTicketsAnyStatus(b, table, rifaID, numeros, userID, outcome) ==
    LET resp == StoreInsert(table, TicketRows(rifaID, numeros, userID), outcome)
    IN  [table |-> resp.table,
         resp |-> resp,
         err |-> IF ~resp.reached
                 THEN [msg |-> "transport", status |-> 0, key |-> 0]
                 ELSE NoErr]

(* registrarTickets: the error it returns (NoErr for nil), the store's     *)
(* answer and the table after the call.                                    *)
registrarTickets(b, table, rifaID, numeros, userID, outcome) ==
    LET resp == StoreInsert(table, TicketRows(rifaID, numeros, userID), outcome)
    IN  [table |-> resp.table,
         resp |-> resp,
         err |-> IF ~resp.reached
                 THEN [msg |-> "transport", status |-> 0, key |-> 0]
                 ELSE IF resp.status >= 400
                 THEN IF b = "main.go"
                      THEN [msg |-> "error registro", status |-> 0, key |-> 0]
                      ELSE [msg |-> "status", status |-> resp.status,
                            key |-> resp.key]
                 ELSE NoErr]

(* The status the provider sees when registrarTickets returned an error:   *)
(* part_000 writes 500; main.go returns without writing a header, which    *)
(* net/http sends as 200.                                                  *)
CommitErrorStatus(b) ==
    IF b = "main.go" THEN StatusOK ELSE StatusInternalServerError

(* HandleStripeWebhook, from the read of the body to the response.         *)
HandleStripeWebhook(d) ==
    /\ wh[d].pc = "received"
    /\ \E o \in StoreOutcomes :
          LET w == wh[d]
              meta == w.payload.metadata
              numeros == UnmarshalNumeros(meta.numeros)
              reg == registrarTickets(build, tikect, meta.rifa_id, numeros,
                                      meta.user_id, o)
              end(st) == [w EXCEPT !.pc = "done", !.status = st]
          IN  IF BodyTooLarge(w.payload.len)
              THEN /\ wh' = [wh EXCEPT ![d] = end(StatusBadRequest)]
                   /\ UNCHANGED tikect
              ELSE IF ~ConstructEvent(w.payload, w.signature, WebhookSecret)
              THEN /\ wh' = [wh EXCEPT ![d] =
                              [end(StatusBadRequest) EXCEPT !.verifyTried = TRUE]]
                   /\ UNCHANGED tikect
              ELSE IF ~IsSucceeded(w.payload.type)
              THEN /\ wh' = [wh EXCEPT ![d] =
                              [end(StatusOK) EXCEPT !.verifyTried = TRUE,
                                                    !.verified = TRUE]]
                   /\ UNCHANGED tikect
              ELSE IF reg.err # NoErr
              THEN /\ wh' = [wh EXCEPT ![d] =
                              [end(CommitErrorStatus(build)) EXCEPT
                                  !.verifyTried = TRUE, !.verified = TRUE,
                                  !.commit = IF reg.resp.reached
                                                /\ reg.resp.status = 409
                                             THEN "conflict"
                                             ELSE "unavailable",
                                  !.err = reg.err]]
                   /\ tikect' = reg.table
              ELSE /\ wh' = [wh EXCEPT ![d] =
                              [end(StatusOK) EXCEPT
                                  !.verifyTried = TRUE, !.verified = TRUE,
                                  !.commit = "ok",
                                  !.notif = [state |-> "pending",
                                             to |-> meta.user_email,
                                             title |-> meta.rifa_title,
                                             numeros |-> numeros,
                                             numsStr |-> numsStr(numeros)]]]
                   /\ tikect' = reg.table
    /\ UNCHANGED <<build, ci>>

(* A handler that reports the failure of the notification to the          *)
(* provider.                                                               *)
AfterNotificationReported(w, outcome) ==
    [w EXCEPT !.notif.state = outcome,
              !.status = IF outcome = "failed" THEN StatusInternalServerError
                         ELSE @]

(* What the end of the notification goroutine changes: its outcome is      *)
(* logged, nothing else.                                                   *)
AfterNotification(w, outcome) == [w EXCEPT !.notif.state = outcome]

(* The goroutine running enviarCorreoConfirmacion ends, with or without    *)
(* an error; it may also never end.                                        *)
NotificationEnds(d) ==
    /\ wh[d].notif.state = "pending"
    /\ \E outcome \in {"sent", "failed"} :
          wh' = [wh EXCEPT ![d] = AfterNotification(wh[d], outcome)]
    /\ UNCHANGED <<build, tikect, ci>>

(* ---------------------------- specifications --------------------------- *)

EmptyTable == [row \in Rows |-> 0]

(* The tables the store can hold: at most one row per (rifa_id, number).   *)
ValidTables ==
    {t \in [Rows -> {0, 1}] :
        \A a, b \in Rows :
            (t[a] > 0 /\ t[b] > 0 /\ a.rifa_id = b.rifa_id
                /\ a.number = b.number) => a = b}

Init ==
    /\ build \in Builds
    /\ tikect = EmptyTable
    /\ ci = [r \in Requests |-> IdleRequest]
    /\ wh = [d \in Deliveries |-> IdleDelivery]

(* The allocation-confirmation protocol: buyers create intents, the        *)
(* provider posts its signed events, any number of times.                  *)
Next ==
    \/ \E r \in Requests : CreatePaymentIntentCheck(r, ScenarioReqs, {"ok"})
    \/ \E r \in Requests : CreatePaymentIntentIssue(r, {TRUE})
    \/ \E d \in Deliveries : WebhookArrives(d, {"genuine"}, {MaxBodyBytes})
    \/ \E d \in Deliveries : HandleStripeWebhook(d)
    \/ \E d \in Deliveries : NotificationEnds(d)

Spec == Init /\ [][Next]_vars

(* The webhook endpoint under hostile input: forged, altered and oversized *)
(* bodies arrive beside the provider's own.                                *)
NextVerify ==
    \/ \E r \in Requests : CreatePaymentIntentCheck(r, ScenarioReqs, {"ok"})
    \/ \E r \in Requests : CreatePaymentIntentIssue(r, {TRUE})
    \/ WebhookArrives(1, Shapes, BodyLens)
    \/ HandleStripeWebhook(1)
    \/ NotificationEnds(1)

SpecVerify == Init /\ [][NextVerify]_vars

(* The create-intent endpoint alone, against a store that already holds    *)
(* any table, with every request body and every failure of the store and   *)
(* of the provider.                                                        *)
InitIntent ==
    /\ build \in Builds
    /\ tikect \in ValidTables
    /\ ci = [r \in Requests |-> IdleRequest]
    /\ wh = [d \in Deliveries |-> IdleDelivery]

NextIntent ==
    \/ CreatePaymentIntentCheck(1, ReqInputs, StoreOutcomes)
    \/ CreatePaymentIntentIssue(1, BOOLEAN)

SpecIntent == InitIntent /\ [][NextIntent]_vars

(* ------------------------------ properties ----------------------------- *)

Done(d) == wh[d].pc = "done"

Is2xx(st) == st >= 200 /\ st <= 299

TicketCount(rifaId, n) ==
    Cardinality({row \in Rows : row.rifa_id = rifaId /\ row.number = n
                                /\ tikect[row] > 0})

DeliveryRows(d) ==
    TicketRows(wh[d].payload.metadata.rifa_id,
               UnmarshalNumeros(wh[d].payload.metadata.numeros),
               wh[d].payload.metadata.user_id)

DeliveryNumbers(d) ==
    {DeliveryRows(d)[i].number : i \in 1..Len(DeliveryRows(d))}

(* C1: in every reachable state there is at most one Ticket for each       *)
(* (item, number) pair, whatever create-intent calls and webhook           *)
(* deliveries (redeliveries, different buyers) were interleaved.           *)
C1_AtMostOneTicket ==
    \A row \in Rows :
        /\ tikect[row] <= 1
        /\ TicketCount(row.rifa_id, row.number) <= 1

(* Two buyers' events claimed the same number and one of them lost, and a  *)
(* committed event was delivered again.                                    *)
C1_Witness ==
    \E d1, d2 \in Deliveries :
        /\ d1 # d2
        /\ Done(d1) /\ wh[d1].commit = "ok"
        /\ Done(d2) /\ wh[d2].commit = "conflict"
        /\ wh[d1].payload.metadata.user_id # wh[d2].payload.metadata.user_id
        /\ DeliveryNumbers(d1) \cap DeliveryNumbers(d2) # {}

(* d is a later delivery of an event that another delivery committed.      *)
Replayed(d) ==
    /\ Done(d) /\ wh[d].verified /\ wh[d].payload.type = Succeeded
    /\ wh[d].commit = "conflict"
    /\ \E d0 \in Deliveries \ {d} :
          Done(d0) /\ wh[d0].payload = wh[d].payload /\ wh[d0].commit = "ok"

(* C2: replaying the identical verified succeeded event produces exactly   *)
(* one set of Ticket rows, the set of a single delivery, and the second    *)
(* delivery is acknowledged without error (200).                           *)
C2_ReplayAcknowledged ==
    \A d \in Deliveries :
        Replayed(d) =>
            /\ wh[d].status = StatusOK
            /\ \A i \in 1..Len(DeliveryRows(d)) : tikect[DeliveryRows(d)[i]] = 1
            /\ \A row \in Rows :
                  tikect[row] > 0 =>
                      \E i \in 1..Len(DeliveryRows(d)) : DeliveryRows(d)[i] = row
                      \/ \E d1 \in Deliveries :
                            Done(d1) /\ wh[d1].commit = "ok"
                            /\ wh[d1].payload # wh[d].payload

(* d lost a number to the committed delivery of another buyer.             *)
LostTo(d, w) ==
    /\ d # w
    /\ Done(d) /\ wh[d].commit = "conflict"
    /\ Done(w) /\ wh[w].commit = "ok"
    /\ wh[d].payload.metadata.user_id # wh[w].payload.metadata.user_id
    /\ DeliveryNumbers(d) \cap DeliveryNumbers(w) # {}

(* C3: of two deliveries for different buyers claiming the same number     *)
(* exactly one gets the Ticket, and the loser's commit reports             *)
(* AlreadyAllocated for that number, not a blanket failure.                *)
C3_LoserNamesNumber ==
    \A d, w \in Deliveries :
        LostTo(d, w) =>
            /\ \A n \in DeliveryNumbers(d) \cap DeliveryNumbers(w) :
                  TicketCount(wh[d].payload.metadata.rifa_id, n) = 1
            /\ wh[d].err.msg = "status"
            /\ wh[d].err.status = StatusConflict
            /\ wh[d].err.key \in DeliveryNumbers(d)
            /\ Taken(tikect, wh[d].payload.metadata.rifa_id, wh[d].err.key)

(* The signature header of d is the provider's signature of d's body.      *)
SignatureMatches(d) ==
    /\ wh[d].signature.kind = "v1"
    /\ wh[d].signature.mac.secret = WebhookSecret
    /\ wh[d].signature.mac.payload = wh[d].payload

(* Some intent the provider holds paid for this row.                       *)
PaidFor(row) ==
    \E r \in Issued :
        /\ ci[r].req.rifaId = row.rifa_id
        /\ ci[r].req.userId = row.profile_id
        /\ \E i \in 1..Len(ci[r].req.numeros) : ci[r].req.numeros[i] = row.number

(* C4: a delivery whose signature does not match the secret and the exact  *)
(* body is answered 400 and causes no insert and no notification,          *)
(* whatever type and metadata it claims; every Ticket comes from a         *)
(* verified delivery, so it is one an intent paid for.                     *)
C4_UnverifiedRejected ==
    /\ \A d \in Deliveries :
          (Done(d) /\ ~SignatureMatches(d)) =>
              /\ wh[d].status = StatusBadRequest
              /\ ~wh[d].verified
              /\ wh[d].commit = "none"
              /\ wh[d].notif.state = "none"
    /\ \A row \in Rows : tikect[row] > 0 => PaidFor(row)

(* A succeeded event within the cap, signed by the provider and altered    *)
(* afterwards to name a buyer who paid for nothing, was rejected.          *)
C4_Witness ==
    \E d \in Deliveries :
        /\ Done(d)
        /\ wh[d].signature.kind = "v1"
        /\ wh[d].signature.mac.secret = WebhookSecret
        /\ wh[d].signature.mac.payload # wh[d].payload
        /\ wh[d].payload.type = Succeeded
        /\ ~BodyTooLarge(wh[d].payload.len)
        /\ \A i \in 1..Len(DeliveryRows(d)) : ~PaidFor(DeliveryRows(d)[i])
        /\ wh[d].status = StatusBadRequest

(* C5: when the store is unavailable during the commit of a verified       *)
(* succeeded event, the delivery is answered with a non-2xx status and     *)
(* creates no Ticket.                                                      *)
C5_StoreFailureNot2xx ==
    \A d \in Deliveries :
        (Done(d) /\ wh[d].commit = "unavailable") =>
            /\ wh[d].status # NoResponse
            /\ ~Is2xx(wh[d].status)
            /\ wh[d].notif.state = "none"

(* C6: a commit rejected because its numbers are already allocated is      *)
(* acknowledged with 2xx, and the handler answers a transient store        *)
(* failure differently.                                                    *)
C6_AlreadyAllocatedAcked ==
    \A d \in Deliveries :
        (Done(d) /\ wh[d].commit = "conflict"
            /\ \E n \in DeliveryNumbers(d) :
                  Taken(tikect, wh[d].payload.metadata.rifa_id, n)) =>
            /\ Is2xx(wh[d].status)
            /\ \A e \in Deliveries :
                  (Done(e) /\ wh[e].commit = "unavailable") =>
                      wh[e].status # wh[d].status

(* C7: a delivery whose commit succeeded is answered 200 while the         *)
(* notification is still running, after it was sent and after it failed,   *)
(* and its Tickets stay.                                                   *)
C7_NotificationDecoupled ==
    \A d \in Deliveries :
        wh[d].commit = "ok" =>
            /\ Done(d)
            /\ wh[d].status = StatusOK
            /\ wh[d].notif.state \in {"pending", "sent", "failed"}
            /\ \A i \in 1..Len(DeliveryRows(d)) : tikect[DeliveryRows(d)[i]] = 1

(* A committed delivery was answered 200 and its notification then         *)
(* failed; its Tickets are in the table.                                   *)
C7_Witness ==
    \E d \in Deliveries :
        /\ Done(d) /\ wh[d].commit = "ok" /\ wh[d].notif.state = "failed"
        /\ wh[d].status = StatusOK
        /\ Len(DeliveryRows(d)) > 0
        /\ \A i \in 1..Len(DeliveryRows(d)) : tikect[DeliveryRows(d)[i]] = 1

Answered(r) == ci[r].pc = "done"

PastCheck(r) ==
    /\ ci[r].pc \in {"issuing", "done"}
    /\ ci[r].req.json = "valid"
    /\ ci[r].req.rifaId \in RifaIds

(* C8: with no ticket on the requested numbers the availability check      *)
(* returns available; once a ticket exists for (item, n), a create-intent  *)
(* request including n returns 409 and no payment intent is created.       *)
C8_TakenGivesConflict ==
    \A r \in Requests :
        PastCheck(r) =>
            /\ ci[r].takenAtCheck =>
                  (Answered(r) /\ ci[r].status = StatusConflict
                      /\ ci[r].intent = NoIntent)
            /\ ~ci[r].takenAtCheck => ci[r].status # StatusConflict

RifaPrice(id) == (CHOOSE x \in RifaTable : x.id = id).price

HasIntent(r) ==
    \/ ci[r].pc = "issuing"
    \/ Answered(r) /\ ci[r].status = StatusOK

C10_OversizeRejectedFirst ==
    \A d \in Deliveries :
        (Done(d) /\ wh[d].payload.len > 65536) =>
            /\ wh[d].status = StatusBadRequest
            /\ ~wh[d].verifyTried
            /\ ~wh[d].verified
            /\ wh[d].commit = "none"
            /\ wh[d].notif.state = "none"

(* A succeeded event of 65537 bytes carrying the provider's signature was  *)
(* rejected unverified.                                                    *)
C10_Witness ==
    \E d \in Deliveries :
        /\ Done(d)
        /\ wh[d].payload.len = 65537
        /\ SignatureMatches(d)
        /\ wh[d].payload.type = Succeeded
        /\ wh[d].status = StatusBadRequest
        /\ ~wh[d].verifyTried

(* C11: the numbers field that create-intent embeds in the metadata        *)
(* decodes in the webhook handler to the requested numbers in the same     *)
(* order, and item id, title, buyer id and buyer contact are recovered     *)
(* unchanged.                                                              *)
C11_DescriptorRoundTrip ==
    \A r \in Requests :
        HasIntent(r) =>
            LET meta == ci[r].intent.metadata
                rifa == CHOOSE x \in RifaTable : x.id = ci[r].req.rifaId
            IN  /\ UnmarshalNumeros(meta.numeros) = ci[r].req.numeros
                /\ meta.rifa_id = ci[r].req.rifaId
                /\ meta.rifa_title = rifa.title
                /\ meta.user_id = ci[r].req.userId
                /\ meta.user_email = ci[r].req.email

(* An intent was issued for the numbers 2, 1, 2 in that order, and its     *)
(* numbers field reads [2,1,2].                                            *)
C11_Witness ==
    \E r \in Requests :
        /\ Answered(r) /\ ci[r].status = StatusOK
        /\ ci[r].req.numeros = <<2, 1, 2>>
        /\ ci[r].intent.metadata.numeros = <<"[", "2", ",", "1", ",", "2", "]">>
        /\ UnmarshalNumeros(ci[r].intent.metadata.numeros) = <<2, 1, 2>>

(* C12: create-intent answers 200 with a client secret only when the body  *)
(* parsed, the item was found, no requested number was taken at check time *)
(* and the provider call succeeded; otherwise 400 (invalid body), 404      *)
(* (item not found), 409 (numbers conflict) or 500 (provider error), and   *)
(* on 400, 404 and 409 no intent is requested from the provider.           *)
C12_CreateIntentStatuses ==
    \A r \in Requests :
        Answered(r) =>
            /\ ci[r].status \in {StatusOK, StatusBadRequest, StatusNotFound,
                                 StatusConflict, StatusInternalServerError}
            /\ ci[r].status = StatusOK =>
                  /\ ci[r].req.json = "valid"
                  /\ ci[r].req.rifaId \in RifaIds
                  /\ ~ci[r].takenAtCheck
                  /\ ci[r].intent # NoIntent
            /\ ci[r].req.json # "valid" => ci[r].status = StatusBadRequest
            /\ (ci[r].req.json = "valid" /\ ci[r].req.rifaId \notin RifaIds) =>
                  ci[r].status = StatusNotFound
            /\ (PastCheck(r) /\ ci[r].store.rifa = "ok" /\ ci[r].takenAtCheck) =>
                  ci[r].status = StatusConflict
            /\ ci[r].status \in {StatusBadRequest, StatusNotFound, StatusConflict}
                  => ci[r].intent = NoIntent

(* C13: a transient failure of the store in the catalog lookup or in the   *)
(* availability check of create-intent is answered with a 5xx and no       *)
(* payment intent is created; a failed availability query is never taken   *)
(* as "available".                                                         *)
C13_StoreFailureIs5xx ==
    \A r \in Requests :
        (ci[r].store.rifa \in {"neterr", "5xx"}
            \/ ci[r].store.check \in {"neterr", "5xx"}) =>
            /\ Answered(r)
            /\ ci[r].status >= 500 /\ ci[r].status <= 599
            /\ ci[r].intent = NoIntent

(* C14: a verified event whose type is not "payment succeeded" is          *)
(* acknowledged as a no-op: the response is 200, no Ticket is inserted and *)
(* no notification is attempted.                                           *)
C14_OtherEventIsNoop ==
    \A d \in Deliveries :
        (Done(d) /\ wh[d].verified /\ wh[d].payload.type # Succeeded) =>
            /\ wh[d].status = StatusOK
            /\ wh[d].commit = "none"
            /\ wh[d].err = NoErr
            /\ wh[d].notif = NoNotif

(* A verified payment_failed event about an issued intent was answered,    *)
(* and no row for that intent's numbers and buyer is in the table.         *)
C14_Witness ==
    \E d \in Deliveries :
        /\ Done(d) /\ wh[d].verified
        /\ wh[d].payload.type = "payment_intent.payment_failed"
        /\ wh[d].status = StatusOK
        /\ Len(DeliveryRows(d)) > 0
        /\ \A i \in 1..Len(DeliveryRows(d)) : tikect[DeliveryRows(d)[i]] = 0

(* The commit of d was rejected while some of its numbers were already     *)
(* ticketed and others are free.                                           *)
PartialClash(d) ==
    /\ Done(d) /\ wh[d].verified /\ wh[d].commit = "conflict"
    /\ \E n \in DeliveryNumbers(d) :
          TicketCount(wh[d].payload.metadata.rifa_id, n) > 0
    /\ \E n \in DeliveryNumbers(d) :
          TicketCount(wh[d].payload.metadata.rifa_id, n) = 0

(* C15: on partial failure of a commit (some numbers insertable, others    *)
(* taken by a concurrent winner) the commit reports which numbers were     *)
(* granted: the delivery does not end with a plain success or with the     *)
(* same failure as a store outage, and its error names a rejected number.  *)
C15_PartialFailureReported ==
    \A d \in Deliveries :
        PartialClash(d) =>
            /\ wh[d].status # StatusOK
            /\ wh[d].status # StatusInternalServerError
            /\ wh[d].err.msg = "status"
            /\ wh[d].err.key \in DeliveryNumbers(d)
            /\ TicketCount(wh[d].payload.metadata.rifa_id, wh[d].err.key) > 0

(* C16: a verified succeeded event is consumed exactly-once-effectively    *)
(* under redelivery until 2xx: it is never acknowledged with 2xx, its      *)
(* commit not having been rejected as already allocated, while a number of *)
(* its descriptor has no Ticket.                                           *)
C16_AckedOnlyWhenTicketed ==
    \A d \in Deliveries :
        (Done(d) /\ wh[d].verified /\ wh[d].payload.type = Succeeded
            /\ wh[d].commit # "conflict" /\ Is2xx(wh[d].status)) =>
            \A n \in DeliveryNumbers(d) :
                TicketCount(wh[d].payload.metadata.rifa_id, n) = 1

(* The integers a text names, in order.                                    *)
RECURSIVE NumbersIn(_, _, _, _)
NumbersIn(s, acc, cur, inNum) ==
    IF s = <<>> THEN (IF inNum THEN Append(acc, cur) ELSE acc)
    ELSE IF IsDigit(Head(s))
         THEN NumbersIn(Tail(s), acc, (cur * 10) + DigitVal(Head(s)), TRUE)
    ELSE NumbersIn(Tail(s), IF inNum THEN Append(acc, cur) ELSE acc, 0, FALSE)

Listed(d) == NumbersIn(wh[d].notif.numsStr, <<>>, 0, FALSE)

(* C17: a notification is attempted for a delivery only after that         *)
(* delivery's commit succeeded; it goes to the buyer of the descriptor and *)
(* the numbers it lists are the descriptor's, each with a Ticket bound to  *)
(* that buyer.                                                             *)
C17_NotifiedNumbersGranted ==
    \A d \in Deliveries :
        wh[d].notif.state # "none" =>
            LET meta == wh[d].payload.metadata IN
            /\ wh[d].verified /\ wh[d].commit = "ok"
            /\ wh[d].notif.to = meta.user_email
            /\ wh[d].notif.to = EmailOf(meta.user_id)
            /\ wh[d].notif.title = meta.rifa_title
            /\ Listed(d) = UnmarshalNumeros(meta.numeros)
            /\ \A i \in 1..Len(Listed(d)) :
                  tikect[[rifa_id |-> meta.rifa_id, number |-> Listed(d)[i],
                          profile_id |-> meta.user_id]] = 1

(* The confirmation "1, 2" was sent to the buyer who holds Tickets 1 and 2. *)
C17_Witness ==
    \E d \in Deliveries :
        /\ wh[d].notif.state = "sent"
        /\ wh[d].notif.numsStr = <<"1", ",", " ", "2">>
        /\ Listed(d) = <<1, 2>>
        /\ \A n \in {1, 2} :
              tikect[[rifa_id |-> wh[d].payload.metadata.rifa_id, number |-> n,
                      profile_id |-> wh[d].payload.metadata.user_id]] = 1

(* The table after one row per number of the request behind d's event was  *)
(* added, bound to that request's item and buyer.                          *)
WithRowsOf(d) ==
    LET req == ci[wh[d].payload.id].req
    IN  [row \in Rows |->
            tikect[row] +
            Cardinality({i \in 1..Len(req.numeros) :
                            /\ row.rifa_id = req.rifaId
                            /\ row.number = req.numeros[i]
                            /\ row.profile_id = req.userId})]

Handled(d) == wh[d].pc = "received" /\ wh'[d].pc = "done"

(* What one step may do to the table.                                      *)
C18_BatchStep ==
    /\ \A d \in Deliveries :
          Handled(d) =>
              IF wh'[d].commit = "ok"
              THEN /\ wh'[d].verified /\ wh[d].payload.type = Succeeded
                   /\ tikect' = WithRowsOf(d)
                   /\ tikect' # tikect
                   /\ \A row \in Rows : tikect'[row] \in {0, 1}
              ELSE tikect' = tikect
    /\ tikect' # tikect => \E d \in Deliveries : Handled(d)

(* C18: a successful commit of a verified succeeded event inserts exactly  *)
(* one Ticket row per number of the descriptor, bound to the descriptor's  *)
(* item and buyer, in one batch: a delivery adds all of these rows or      *)
(* none, and the table changes in no other way.                            *)
C18_OneRowPerNumber == [][C18_BatchStep]_vars

(* The event for numbers 1 and 2 of one buyer was committed: that buyer    *)
(* holds both rows and the other rows of the table are absent.             *)
C18_Witness ==
    \E d \in Deliveries :
        LET meta == wh[d].payload.metadata IN
        /\ Done(d) /\ wh[d].commit = "ok"
        /\ UnmarshalNumeros(meta.numeros) = <<1, 2>>
        /\ \A row \in Rows :
              tikect[row] = IF row.rifa_id = meta.rifa_id
                               /\ row.profile_id = meta.user_id
                            THEN 1 ELSE 0

Elems(v) == {v[i] : i \in 1..Len(v)}

(* C19: a create-intent request whose numbers list contains a duplicate is *)
(* rejected or deduplicated: no intent has a descriptor that lists a       *)
(* number twice or an amount that charges a number more than once.         *)
C19_NoDuplicateCharged ==
    \A r \in Requests :
        HasIntent(r) =>
            LET listed == UnmarshalNumeros(ci[r].intent.metadata.numeros)
            IN  /\ Len(listed) = Cardinality(Elems(listed))
                /\ ci[r].intent.amount =
                      (RifaPrice(ci[r].req.rifaId)
                          * Cardinality(Elems(ci[r].req.numeros))) * 100

====
